---- MODULE Spec2Model ----
(***************************************************************************)
(* wyoming-porcupine: the per-connection event handler                     *)
(* (PorcupineEventHandler) and the shared detector cache (State) of        *)
(* src/wyoming_porcupine/handler.py, with the service info built by        *)
(* src/wyoming_porcupine/__main__.py.                                      *)
(*                                                                         *)
(* A session is one connection and its handler object.  It moves through   *)
(* the positions of its coroutine: "new" (not accepted yet), "read"        *)
(* (awaiting the next                                                      *)
(* event), "get_lock" / "get_cs" / "get_build" (State.get_porcupine at the *)
(* lock, inside the lock, at pvporcupine.create), "write" (awaiting         *)
(* write_event), "disc" / "disc_cs" (disconnect), "closed".  Everything a   *)
(* handler does between two of these positions is one action.              *)
(***************************************************************************)
EXTENDS Integers, Sequences, FiniteSets, TLC

\* ------------------------------------------------------------------ bounds
NumSessions == 2        \* connections accepted in one run
MaxEvents == 3          \* events read in one concurrent run, over all connections
MaxAudioEvents == 4     \* events read in one single-session run
MaxDetectors == 2       \* detectors pvporcupine.create builds in one run

Sessions == 1 .. NumSessions

\* ------------------------------------------------------- program constants
DEFAULT_KEYWORD == "porcupine"
None == 0               \* Python None for an Optional[Detector] (ids start at 1)
ConverterWidth == 2     \* AudioChunkConverter(rate=16000, width=2, channels=1)

\* --------------------------------------------------------------- inputs
\* The discovered keyword mapping (name -> Keyword), in discovery order.
\* The second one has no "porcupine" model, so the implicit default keyword
\* is unknown there.
DiscoveredKeywords ==
    << [name |-> "porcupine", language |-> "en"],
       [name |-> "ok home",   language |-> "en"] >>

KeywordsWithoutDefault ==
    << [name |-> "ok home",   language |-> "en"],
       [name |-> "hola",      language |-> "es"] >>

KeywordEnvs == { DiscoveredKeywords, KeywordsWithoutDefault }

\* --sensitivity values a handler's cli_args may carry
Sensitivities == {3, 5}           \* tenths: 0.3, 0.5 (default 0.5)

\* frame_length of the detector pvporcupine builds for a keyword (samples)
FrameLengthOf(name) == IF name = "ok home" THEN 2 ELSE 1

ByteValues == {0, 255}

VARIABLES
    keywords,        \* State.keywords
    detectors,       \* every Detector built so far; a Detector's id is its index
    detector_cache,  \* State.detector_cache: keyword name -> list of detector ids
    detector_lock,   \* State.detector_lock: None or the session holding it
    session,         \* per slot: the PorcupineEventHandler's fields and position
    returned,        \* per detector: how often get_porcupine has returned it
    released,        \* per detector: how often disconnect has put it in the cache
    events_left      \* events the clients still send in this run

vars == << keywords, detectors, detector_cache, detector_lock, session,
           returned, released, events_left >>

\* --------------------------------------------------------------- helpers
RECURSIVE Repeat(_, _)
\* Python's str * int
Repeat(str, n) == IF n <= 0 THEN "" ELSE str \o Repeat(str, n - 1)

\* mutant: the remove drops the head of the list, not the match
RemoveAtHead(seq, i) == Tail(seq)

\* list.remove(x) after next(...) found x at index i: drop the element at i
RemoveAt(seq, i) == SubSeq(seq, 1, i - 1) \o SubSeq(seq, i + 1, Len(seq))

\* dict.get(name): the value, or the empty list where Python gives None
\* (both are falsy in `if detectors:`)
CacheGet(cache, name) == IF name \in DOMAIN cache THEN cache[name] ELSE << >>

\* mutant: the release forgets the append
CacheAppendLost(cache, name, d) == cache

\* defaultdict(list)[name].append(d)
CacheAppend(cache, name, d) ==
    [n \in (DOMAIN cache) \cup {name} |->
        IF n = name THEN Append(CacheGet(cache, name), d) ELSE cache[n]]

\* self.keywords.get(keyword_name) is not None
KeywordKnown(kws, name) == \E i \in 1 .. Len(kws) : kws[i].name = name

KeywordGet(kws, name) ==
    kws[CHOOSE i \in 1 .. Len(kws) : kws[i].name = name]

\* ----------------------------------------------------------- wire events
NoEvent == [type |-> "none", names |-> << >>, width |-> 0, audio |-> << >>,
            timestamp |-> 0]
Describe == [NoEvent EXCEPT !.type = "describe"]
Detect(names) == [NoEvent EXCEPT !.type = "detect", !.names = names]
AudioStart == [NoEvent EXCEPT !.type = "audio-start", !.width = 2]
AudioChunk(width, audio, timestamp) ==
    [NoEvent EXCEPT !.type = "audio-chunk", !.width = width, !.audio = audio,
                    !.timestamp = timestamp]
AudioStop == [NoEvent EXCEPT !.type = "audio-stop"]
OtherEvent == [NoEvent EXCEPT !.type = "transcript"]

NoOutput == [type |-> "none", name |-> "", timestamp |-> 0, models |-> << >>]
\* mutant: the Detection is built without the chunk's timestamp
DetectionUntimed(name, timestamp) ==
    [NoOutput EXCEPT !.type = "detection", !.name = name]

Detection(name, timestamp) ==
    [NoOutput EXCEPT !.type = "detection", !.name = name, !.timestamp = timestamp]
NotDetected == [NoOutput EXCEPT !.type = "not-detected"]

\* mutant: the description leaves the language out
WakeModelNameOnly(kw) ==
    [name |-> kw.name,
     description |-> kw.name,
     languages |-> << kw.language >>,
     installed |-> TRUE]

\* WakeModel(name=kw.name, description=f"{kw.name} ({kw.language})", ...)
WakeModel(kw) ==
    [name |-> kw.name,
     description |-> kw.name \o " (" \o kw.language \o ")",
     languages |-> << kw.language >>,
     installed |-> TRUE]

\* wyoming_info.event(): one model per discovered keyword, in dict order
wyoming_info_event(kws) ==
    [NoOutput EXCEPT !.type = "info", !.name = "porcupine",
                     !.models = [i \in 1 .. Len(kws) |-> WakeModel(kws[i])]]

\* ------------------------------------------------------------- audio path
\* AudioChunkConverter(rate=16000, width=2, channels=1).convert: a chunk that
\* already has the target width is returned as it is; 8-bit samples are
\* widened (audioop.lin2lin: sample << 8, little endian).  The timestamp is
\* carried over.
RECURSIVE Widen(_)
Widen(audio) ==
    IF audio = << >> THEN << >>
    ELSE << 0, Head(audio) >> \o Widen(Tail(audio))

convert(chunk) ==
    IF chunk.width = ConverterWidth THEN chunk
    ELSE [chunk EXCEPT !.width = ConverterWidth, !.audio = Widen(chunk.audio)]

\* one "h" of struct.unpack_from: a little-endian signed 16-bit sample
Int16(lo, hi) ==
    LET u == lo + 256 * hi IN IF u >= 32768 THEN u - 65536 ELSE u

\* struct.unpack_from("h" * n, data): the first n samples of data
unpack_from(chunk_format, data) ==
    [i \in 1 .. Len(chunk_format) |-> Int16(data[2 * i - 1], data[2 * i])]

\* porcupine.process(frame): the keyword index, or -1.  The detector is an
\* opaque library; the stand-in reports the keyword when the frame holds a
\* sample of value -1.
process(frame) ==
    IF \E i \in 1 .. Len(frame) : frame[i] = -1 THEN 0 ELSE -1

\* ---------------------------------------------------------------- session
\* PorcupineEventHandler.__init__
NewSession(sensitivity) ==
    [pc |-> "read",
     cli_sensitivity |-> sensitivity,
     audio_buffer |-> << >>,
     detected |-> FALSE,
     detector |-> None,
     keyword_name |-> "",
     chunk_format |-> "",
     bytes_per_chunk |-> 0,
     event |-> NoEvent,          \* the event handle_event is working on
     written |-> << >>,          \* events given to write_event, in order
     processed |-> << >>,        \* porcupine.process calls, in order
     stream |-> << >>,           \* every byte appended to audio_buffer, in order
     utterance_from |-> -1,      \* Len(written) at the last AudioStart, -1 before
     bound_at |-> 0,             \* Len(stream) when the detector was bound
     chunk_calls |-> 0,          \* Len(processed) when the AudioChunk being
                                 \* handled arrived
     chunk_bytes |-> 0,          \* bytes in the buffer once that chunk's audio
                                 \* was appended
     stopped |-> ""]             \* why the caller's loop ended: handle_event
                                 \* returned "false", "raised" out of
                                 \* get_porcupine or "write_failed", or "eof"

\* a connection the server has not accepted yet
NotAccepted == [NewSession(5) EXCEPT !.pc = "new"]

\* a connection that is over; its handler object is gone
Closed == [NewSession(5) EXCEPT !.pc = "closed"]

\* mutant: every branch ends the session as AudioStop does
ReturnTrueEnding(self) ==
    [self EXCEPT !.pc = "disc", !.event = NoEvent, !.stopped = "false",
                 !.chunk_calls = 0, !.chunk_bytes = 0]

\* handle_event returns True: the caller awaits the next event
ReturnTrue(self) ==
    [self EXCEPT !.pc = "read", !.event = NoEvent,
                 !.chunk_calls = 0, !.chunk_bytes = 0]

\* await self.write_event(out): the event is handed to the writer and the
\* handler is suspended until the write is over
AwaitWrite(self, out) ==
    [self EXCEPT !.written = Append(@, out), !.pc = "write"]

\* handle_event returns False or raises, or the stream ends: the caller goes
\* on to disconnect, which enters the cache lock at once when a detector is
\* bound and the lock is free (an asyncio.Lock that is free is taken without
\* suspending)
Stop(self, why, lock) ==
    [self EXCEPT !.pc = IF self.detector # None /\ lock = None
                        THEN "disc_cs" ELSE "disc",
                 !.event = NoEvent,
                 !.chunk_calls = 0,
                 !.chunk_bytes = 0,
                 !.stopped = why]

\* mutant: the blocks that touch the cache are entered without the lock
LockAfterUntaken(s, self, lock) == lock

\* the lock after session s has run up to its next position
LockAfter(s, self, lock) == IF self.pc \in {"get_cs", "disc_cs"} THEN s ELSE lock

\* mutant: the slice drops two frames' worth of bytes from the buffer
SlicedTwice(self) ==
    [self EXCEPT !.audio_buffer = SubSeq(@, 2 * self.bytes_per_chunk + 1, Len(@))]

\* self.audio_buffer = self.audio_buffer[self.bytes_per_chunk :]
Sliced(self) ==
    [self EXCEPT !.audio_buffer = SubSeq(@, self.bytes_per_chunk + 1, Len(@))]

\* mutant: `if` in place of `while`: one frame per AudioChunk at most
FrameLoopOnce(self, chunk) ==
    IF Len(self.audio_buffer) >= self.bytes_per_chunk
    THEN LET unpacked_chunk ==
                 unpack_from(self.chunk_format,
                             SubSeq(self.audio_buffer, 1, self.bytes_per_chunk))
             keyword_index == process(unpacked_chunk)
             call == [detector |-> self.detector, frame |-> unpacked_chunk]
             called == [self EXCEPT !.processed = Append(@, call)]
         IN  IF keyword_index >= 0
             THEN AwaitWrite(called, Detection(self.keyword_name, chunk.timestamp))
             ELSE ReturnTrue(Sliced(called))
    ELSE ReturnTrue(self)

RECURSIVE FrameLoop(_, _)
\* while len(self.audio_buffer) >= self.bytes_per_chunk: ..., from the test
\* of the condition up to the next await (the write_event of a Detection,
\* which comes before the slice) or, when the loop is over, to `return True`
FrameLoop(self, chunk) ==
    IF Len(self.audio_buffer) >= self.bytes_per_chunk
    THEN LET unpacked_chunk ==
                 unpack_from(self.chunk_format,
                             SubSeq(self.audio_buffer, 1, self.bytes_per_chunk))
             keyword_index == process(unpacked_chunk)
             call == [detector |-> self.detector, frame |-> unpacked_chunk]
             called == [self EXCEPT !.processed = Append(@, call)]
         IN  IF keyword_index >= 0
             THEN AwaitWrite(called, Detection(self.keyword_name, chunk.timestamp))
             ELSE FrameLoop(Sliced(called), chunk)
    ELSE ReturnTrue(self)

\* mutant: the converted audio replaces the buffer instead of extending it
AudioChunkBodyReplacing(self, event) ==
    LET chunk == convert(event)
        appended == [self EXCEPT !.audio_buffer = chunk.audio,
                                 !.stream = @ \o chunk.audio,
                                 !.chunk_calls = Len(self.processed),
                                 !.chunk_bytes = Len(self.audio_buffer)
                                                   + Len(chunk.audio)]
    IN  FrameLoop(appended, chunk)

\* handle_event, AudioChunk branch from `chunk = AudioChunk.from_event(event)`
\* up to the first await of the loop or to `return True`
AudioChunkBody(self, event) ==
    LET chunk == convert(event)
        appended == [self EXCEPT !.audio_buffer = @ \o chunk.audio,
                                 !.stream = @ \o chunk.audio,
                                 !.chunk_calls = Len(self.processed),
                                 !.chunk_bytes = Len(self.audio_buffer)
                                                   + Len(chunk.audio)]
    IN  FrameLoop(appended, chunk)

\* what handle_event does once an awaited write_event is over, by the event
\* being handled: Describe returns True; AudioChunk slices the frame off and
\* goes round the loop; AudioStop returns False
AfterWrite(self, lock) ==
    IF self.event.type = "audio-chunk"
    THEN FrameLoop(Sliced(self), self.event)
    ELSE IF self.event.type = "audio-stop"
         THEN Stop(self, "false", lock)
         ELSE ReturnTrue(self)

\* mutant: a rebind keeps the frame size of the detector bound before
LoadKeywordBindStaleFrame(self, keyword_name, d, frame_length) ==
    [self EXCEPT !.detector = d,
                 !.keyword_name = keyword_name,
                 !.chunk_format = IF self.detector = None
                                  THEN Repeat("h", frame_length) ELSE @,
                 !.bytes_per_chunk = IF self.detector = None
                                     THEN frame_length * 2 ELSE @,
                 !.bound_at = Len(self.stream)]

\* _load_keyword after get_porcupine returned detector d
LoadKeywordBind(self, keyword_name, d, frame_length) ==
    [self EXCEPT !.detector = d,
                 !.keyword_name = keyword_name,
                 !.chunk_format = Repeat("h", frame_length),
                 !.bytes_per_chunk = frame_length * 2,
                 !.bound_at = Len(self.stream)]

\* mutant: the implicit keyword of an AudioChunk is another discovered one
RequestedKeywordOther(event) ==
    IF event.type = "detect" THEN event.names[1] ELSE "ok home"

\* mutant: a Detect asks for one keyword whatever names it carries
RequestedKeywordIgnoringNames(event) ==
    IF event.type = "detect" THEN "ok home" ELSE DEFAULT_KEYWORD

\* the keyword get_porcupine is called for by the event being handled
RequestedKeyword(event) ==
    IF event.type = "detect" THEN event.names[1] ELSE DEFAULT_KEYWORD

\* handle_event once _load_keyword has returned, up to its next await or its
\* return
AfterLoadKeyword(self) ==
    IF self.event.type = "audio-chunk"
    THEN AudioChunkBody(self, self.event)
    ELSE ReturnTrue(self)

\* ------------------------------------------------------------------ cache
\* pvporcupine.create(...) wrapped as Detector(porcupine, sensitivity)
Detector(keyword, sensitivity) ==
    [porcupine |-> [keyword |-> keyword.name,
                    frame_length |-> FrameLengthOf(keyword.name)],
     sensitivity |-> sensitivity]

\* mutant: the lookup takes the first cached detector whatever its sensitivity
FindDetectorAnySensitivity(built, list, sensitivity) ==
    IF list # << >> THEN 1 ELSE 0

\* next((d for d in detectors if d.sensitivity == sensitivity), None):
\* the index of the first match in the list, 0 for None
FindDetector(built, list, sensitivity) ==
    IF \E i \in 1 .. Len(list) : built[list[i]].sensitivity = sensitivity
    THEN CHOOSE i \in 1 .. Len(list) :
            /\ built[list[i]].sensitivity = sensitivity
            /\ \A j \in 1 .. i - 1 : built[list[j]].sensitivity # sensitivity
    ELSE 0

\* mutant: the hit leaves the detector in the cached list
CacheRemoveNothing(cache, keyword_name, i) == cache

\* detectors.remove(detector) on the cached list of keyword_name
CacheRemove(cache, keyword_name, i) ==
    [cache EXCEPT ![keyword_name] = RemoveAt(@, i)]

\* mutant: _load_keyword records the keyword name before get_porcupine runs
GetPorcupineEnterEager(self, kws, keyword_name, lock) ==
    IF KeywordKnown(kws, keyword_name)
    THEN [self EXCEPT !.pc = IF lock = None THEN "get_cs" ELSE "get_lock",
                      !.keyword_name = keyword_name]
    ELSE Stop([self EXCEPT !.keyword_name = keyword_name], "raised", lock)

\* mutant: an unknown keyword is reported to the client before the error
GetPorcupineEnterReporting(self, kws, keyword_name, lock) ==
    IF KeywordKnown(kws, keyword_name)
    THEN [self EXCEPT !.pc = IF lock = None THEN "get_cs" ELSE "get_lock"]
    ELSE Stop([self EXCEPT !.written = Append(@, NotDetected)], "raised", lock)

\* get_porcupine up to the lock: the keyword lookup, ValueError when unknown;
\* the lock is entered at once when it is free
GetPorcupineEnter(self, kws, keyword_name, lock) ==
    IF KeywordKnown(kws, keyword_name)
    THEN [self EXCEPT !.pc = IF lock = None THEN "get_cs" ELSE "get_lock"]
    ELSE Stop(self, "raised", lock)

\* an event has been read from the connection
Received(self, event) == [self EXCEPT !.event = event]

\* ---------------------------------------------------------------- actions
Start ==
    /\ detectors = << >>
    /\ detector_cache = << >>
    /\ detector_lock = None
    /\ session = [s \in Sessions |-> NotAccepted]
    /\ returned = << >>
    /\ released = << >>

Init ==
    /\ Start
    /\ keywords = DiscoveredKeywords
    /\ events_left = MaxEvents

InitAudio ==
    /\ Start
    /\ keywords \in KeywordEnvs
    /\ events_left = MaxAudioEvents

\* the server accepts a connection: PorcupineEventHandler(wyoming_info, args, state)
Connect(s, sensitivity) ==
    /\ session[s].pc = "new"
    /\ session' = [session EXCEPT ![s] = NewSession(sensitivity)]
    /\ UNCHANGED << keywords, detectors, detector_cache, detector_lock,
                    returned, released, events_left >>

\* a connection is over and the server is ready to accept the next one
Reconnect(s) ==
    /\ session[s].pc = "closed"
    /\ session' = [session EXCEPT ![s] = NotAccepted]
    /\ UNCHANGED << keywords, detectors, detector_cache, detector_lock,
                    returned, released, events_left >>

\* the caller's loop reads the next event
ReadEvent(s) ==
    /\ session[s].pc = "read"
    /\ events_left > 0
    /\ events_left' = events_left - 1

\* handle_event: Describe, up to the await of write_event
HandleDescribe(s) ==
    /\ ReadEvent(s)
    /\ session' = [session EXCEPT ![s] =
          AwaitWrite(Received(@, Describe), wyoming_info_event(keywords))]
    /\ UNCHANGED << keywords, detectors, detector_cache, detector_lock,
                    returned, released >>

\* handle_event: Detect, up to the cache lock inside get_porcupine
HandleDetect(s, names) ==
    /\ ReadEvent(s)
    /\ session' = [session EXCEPT ![s] =
          IF names # << >>
          THEN GetPorcupineEnter(Received(@, Detect(names)), keywords, names[1],
                                 detector_lock)
          ELSE ReturnTrue(Received(@, Detect(names)))]
    /\ detector_lock' = LockAfter(s, session'[s], detector_lock)
    /\ UNCHANGED << keywords, detectors, detector_cache, returned, released >>

\* mutant: AudioStart also drops the buffered partial frame
HandleAudioStartClearing(s) ==
    /\ ReadEvent(s)
    /\ session' = [session EXCEPT ![s] =
          ReturnTrue([Received(@, AudioStart) EXCEPT
                        !.detected = FALSE,
                        !.audio_buffer = << >>,
                        !.utterance_from = Len(session[s].written)])]
    /\ UNCHANGED << keywords, detectors, detector_cache, detector_lock,
                    returned, released >>

\* handle_event: AudioStart
HandleAudioStart(s) ==
    /\ ReadEvent(s)
    /\ session' = [session EXCEPT ![s] =
          ReturnTrue([Received(@, AudioStart) EXCEPT
                        !.detected = FALSE,
                        !.utterance_from = Len(session[s].written)])]
    /\ UNCHANGED << keywords, detectors, detector_cache, detector_lock,
                    returned, released >>

\* handle_event: AudioChunk; without a detector, up to the cache lock inside
\* get_porcupine(DEFAULT_KEYWORD), else the branch up to its first await
HandleAudioChunk(s, chunk) ==
    /\ ReadEvent(s)
    /\ session' = [session EXCEPT ![s] =
          IF @.detector = None
          THEN GetPorcupineEnter(Received(@, chunk), keywords, DEFAULT_KEYWORD,
                                 detector_lock)
          ELSE AudioChunkBody(Received(@, chunk), chunk)]
    /\ detector_lock' = LockAfter(s, session'[s], detector_lock)
    /\ UNCHANGED << keywords, detectors, detector_cache, returned, released >>

\* handle_event: AudioStop, up to the await of write_event(NotDetected); with
\* detected set it returns False at once and the caller goes on to disconnect
HandleAudioStop(s) ==
    /\ ReadEvent(s)
    /\ session' = [session EXCEPT ![s] =
          IF ~ @.detected
          THEN AwaitWrite(Received(@, AudioStop), NotDetected)
          ELSE Stop(Received(@, AudioStop), "false", detector_lock)]
    /\ detector_lock' = LockAfter(s, session'[s], detector_lock)
    /\ UNCHANGED << keywords, detectors, detector_cache, returned, released >>

\* handle_event: any other event type
HandleOther(s) ==
    /\ ReadEvent(s)
    /\ session' = [session EXCEPT ![s] =
          ReturnTrue(Received(@, OtherEvent))]
    /\ UNCHANGED << keywords, detectors, detector_cache, detector_lock,
                    returned, released >>

\* the awaited write_event is over: handle_event goes on
WriteDone(s) ==
    /\ session[s].pc = "write"
    /\ session' = [session EXCEPT ![s] = AfterWrite(@, detector_lock)]
    /\ detector_lock' = LockAfter(s, session'[s], detector_lock)
    /\ UNCHANGED << keywords, detectors, detector_cache, returned, released,
                    events_left >>

\* the awaited write_event raises (the connection is gone): the error leaves
\* handle_event and the caller goes on to disconnect
WriteFails(s) ==
    /\ session[s].pc = "write"
    /\ session' = [session EXCEPT ![s] = Stop(@, "write_failed", detector_lock)]
    /\ detector_lock' = LockAfter(s, session'[s], detector_lock)
    /\ UNCHANGED << keywords, detectors, detector_cache, returned, released,
                    events_left >>

\* the client closes the stream: the caller goes on to disconnect
EndOfStream(s) ==
    /\ session[s].pc = "read"
    /\ session' = [session EXCEPT ![s] = Stop(@, "eof", detector_lock)]
    /\ detector_lock' = LockAfter(s, session'[s], detector_lock)
    /\ UNCHANGED << keywords, detectors, detector_cache, returned, released,
                    events_left >>

\* get_porcupine: async with self.detector_lock, after waiting for the lock
GetPorcupineLock(s) ==
    /\ session[s].pc = "get_lock"
    /\ detector_lock = None
    /\ detector_lock' = s
    /\ session' = [session EXCEPT ![s].pc = "get_cs"]
    /\ UNCHANGED << keywords, detectors, detector_cache, returned, released,
                    events_left >>

\* get_porcupine: the block under the lock ends in a cache hit; the detector
\* is returned, _load_keyword binds it and handle_event goes on to its next
\* await or its return
GetPorcupineHit(s) ==
    LET self == session[s]
        keyword_name == RequestedKeyword(self.event)
        list == CacheGet(detector_cache, keyword_name)
        i == FindDetector(detectors, list, self.cli_sensitivity)
    IN  /\ self.pc = "get_cs"
        /\ i # 0
        /\ detector_cache' = CacheRemove(detector_cache, keyword_name, i)
        /\ detector_lock' = None
        /\ returned' = [returned EXCEPT ![list[i]] = @ + 1]
        /\ UNCHANGED released
        /\ session' = [session EXCEPT ![s] =
              AfterLoadKeyword(
                LoadKeywordBind(self, keyword_name, list[i],
                                detectors[list[i]].porcupine.frame_length))]
        /\ UNCHANGED << keywords, detectors, events_left >>

\* mutant: the miss goes on to the build inside the lock
GetPorcupineMissHolding(s) ==
    LET self == session[s]
        keyword_name == RequestedKeyword(self.event)
        list == CacheGet(detector_cache, keyword_name)
    IN  /\ self.pc = "get_cs"
        /\ FindDetector(detectors, list, self.cli_sensitivity) = 0
        /\ session' = [session EXCEPT ![s].pc = "get_build"]
        /\ UNCHANGED << keywords, detectors, detector_cache, detector_lock,
                        returned, released, events_left >>

\* get_porcupine: the block under the lock finds nothing and is left
GetPorcupineMiss(s) ==
    LET self == session[s]
        keyword_name == RequestedKeyword(self.event)
        list == CacheGet(detector_cache, keyword_name)
    IN  /\ self.pc = "get_cs"
        /\ FindDetector(detectors, list, self.cli_sensitivity) = 0
        /\ detector_lock' = None
        /\ session' = [session EXCEPT ![s].pc = "get_build"]
        /\ UNCHANGED << keywords, detectors, detector_cache, returned, released,
                        events_left >>

\* get_porcupine: pvporcupine.create succeeds; the new Detector is returned,
\* _load_keyword binds it and handle_event goes on to its next await or its
\* return
GetPorcupineBuild(s) ==
    LET self == session[s]
        keyword_name == RequestedKeyword(self.event)
        built == Detector(KeywordGet(keywords, keyword_name), self.cli_sensitivity)
        d == Len(detectors) + 1
    IN  /\ self.pc = "get_build"
        /\ Len(detectors) < MaxDetectors
        /\ detectors' = Append(detectors, built)
        /\ returned' = Append(returned, 1)
        /\ released' = Append(released, 0)
        /\ session' = [session EXCEPT ![s] =
              AfterLoadKeyword(
                LoadKeywordBind(self, keyword_name, d, built.porcupine.frame_length))]
        /\ UNCHANGED << keywords, detector_cache, detector_lock, events_left >>

\* get_porcupine: pvporcupine.create raises; the error leaves handle_event
\* and the caller goes on to disconnect
GetPorcupineBuildFails(s) ==
    /\ session[s].pc = "get_build"
    /\ session' = [session EXCEPT ![s] = Stop(@, "raised", detector_lock)]
    /\ detector_lock' = LockAfter(s, session'[s], detector_lock)
    /\ UNCHANGED << keywords, detectors, detector_cache, returned, released,
                    events_left >>

\* mutant: the release leaves the detector bound to the handler
DisconnectBodyKeeping(self, cache) ==
    IF self.detector # None
    THEN [self |-> self,
          cache |-> CacheAppend(cache, self.keyword_name, self.detector)]
    ELSE [self |-> self, cache |-> cache]

\* disconnect as a whole, run with the lock free: the handler and the cache
\* after it
DisconnectBody(self, cache) ==
    IF self.detector # None
    THEN [self |-> [self EXCEPT !.detector = None],
          cache |-> CacheAppend(cache, self.keyword_name, self.detector)]
    ELSE [self |-> self, cache |-> cache]

\* disconnect with no detector bound
DisconnectUnbound(s) ==
    /\ session[s].pc = "disc"
    /\ session[s].detector = None
    /\ session' = [session EXCEPT ![s] = Closed]
    /\ UNCHANGED << keywords, detectors, detector_cache, detector_lock,
                    returned, released, events_left >>

\* disconnect: async with self.state.detector_lock, after waiting for the lock
DisconnectLock(s) ==
    /\ session[s].pc = "disc"
    /\ session[s].detector # None
    /\ detector_lock = None
    /\ detector_lock' = s
    /\ session' = [session EXCEPT ![s].pc = "disc_cs"]
    /\ UNCHANGED << keywords, detectors, detector_cache, returned, released,
                    events_left >>

\* disconnect: the block under the lock returns the detector to the cache
DisconnectRelease(s) ==
    LET self == session[s]
    IN  /\ self.pc = "disc_cs"
        /\ detector_cache' = DisconnectBody(self, detector_cache).cache
        /\ released' = [released EXCEPT ![self.detector] = @ + 1]
        /\ UNCHANGED returned
        /\ detector_lock' = None
        /\ session' = [session EXCEPT ![s] = Closed]
        /\ UNCHANGED << keywords, detectors, events_left >>

\* ------------------------------------------------------------ input sets
\* names in the concurrent runs: a discovered keyword and an unknown one (the
\* default keyword is reached through AudioChunk)
RequestNames == {"ok home", "unknown"}

DetectInputs ==
    { << >>, << "porcupine" >>, << "unknown" >>, << "ok home", "porcupine" >> }

\* lengths of the audio in one AudioChunk, in bytes
ChunkLens == {1, 2}

ByteSeqs == UNION {[1 .. k -> ByteValues] : k \in ChunkLens}

\* The client stamps a chunk with its position in the audio it has sent
\* (wav_to_chunks keeps a running timestamp).
TimestampAt(self) == 100 * (Len(self.stream) + 1)

\* audio in the concurrent runs: one matching sample
CoarseChunks(self) ==
    { AudioChunk(2, << 255, 255 >>, TimestampAt(self)) }

\* audio in the single-connection runs: every split of short canonical audio,
\* and 8-bit audio that the converter widens
RichChunks(self) ==
    { AudioChunk(2, a, TimestampAt(self)) : a \in ByteSeqs }
    \cup { AudioChunk(2, << 255, 255, 255, 255 >>, TimestampAt(self)),
           AudioChunk(1, << 255 >>, TimestampAt(self)) }

\* the steps of get_porcupine and disconnect
CacheStep(s) ==
    \/ GetPorcupineLock(s)
    \/ GetPorcupineHit(s)
    \/ GetPorcupineMiss(s)
    \/ GetPorcupineBuild(s)
    \/ GetPorcupineBuildFails(s)
    \/ DisconnectUnbound(s)
    \/ DisconnectLock(s)
    \/ DisconnectRelease(s)

\* Concurrent sessions sharing the cache; the clients send the events that
\* reach the cache (Detect, AudioChunk, AudioStop) or close the stream.
Next ==
    \E s \in Sessions :
        \/ \E sensitivity \in Sensitivities : Connect(s, sensitivity)
        \/ \E names \in {<< n >> : n \in RequestNames} : HandleDetect(s, names)
        \/ \E chunk \in CoarseChunks(session[s]) : HandleAudioChunk(s, chunk)
        \/ HandleAudioStop(s)
        \/ WriteDone(s)
        \/ WriteFails(s)
        \/ EndOfStream(s)
        \/ CacheStep(s)

Spec == Init /\ [][Next]_vars

\* The stdio server: one connection, served with the default sensitivity;
\* the client sends every event type and fine-grained audio.  With one
\* connection the lock is always free when it is asked for and the cache
\* stays empty until the disconnect, so get_porcupine never waits or hits.
NextAudio ==
    \E s \in {1} :
        \/ Connect(s, 5)
        \/ HandleDescribe(s)
        \/ \E names \in DetectInputs : HandleDetect(s, names)
        \/ HandleAudioStart(s)
        \/ \E chunk \in RichChunks(session[s]) : HandleAudioChunk(s, chunk)
        \/ HandleAudioStop(s)
        \/ HandleOther(s)
        \/ WriteDone(s)
        \/ WriteFails(s)
        \/ EndOfStream(s)
        \/ GetPorcupineMiss(s)
        \/ GetPorcupineBuild(s)
        \/ GetPorcupineBuildFails(s)
        \/ DisconnectUnbound(s)
        \/ DisconnectRelease(s)

SpecAudio == InitAudio /\ [][NextAudio]_vars

\* A long-running server: connections come and go, each asking for the same
\* keyword with its own sensitivity, so the idle list of that keyword fills
\* with detectors of different sensitivities.
NextCache ==
    \E s \in Sessions :
        \/ \E sensitivity \in Sensitivities : Connect(s, sensitivity)
        \/ Reconnect(s)
        \/ HandleDetect(s, << "ok home" >>)
        \/ EndOfStream(s)
        \/ CacheStep(s)

SpecCache == Init /\ [][NextCache]_vars

\* The event loop runs every handler that can go on: the blocks under the
\* lock and pvporcupine.create are synchronous code, and asyncio.Lock wakes
\* its waiters in turn, so a handler that can repeatedly take the lock does
\* take it.  Nothing obliges a client to send an event or to close.
Fairness ==
    \A s \in Sessions :
        /\ SF_vars(GetPorcupineLock(s) \/ DisconnectLock(s))
        /\ WF_vars(GetPorcupineHit(s) \/ GetPorcupineMiss(s)
                     \/ GetPorcupineBuild(s) \/ GetPorcupineBuildFails(s)
                     \/ DisconnectUnbound(s) \/ DisconnectRelease(s))

\* Concurrent sessions that ask for one keyword with the default sensitivity
\* and end, by an AudioStop, a failed write or the end of the stream: the
\* steps that contend for the lock.
NextFair ==
    \E s \in Sessions :
        \/ Connect(s, 5)
        \/ HandleDetect(s, << "ok home" >>)
        \/ HandleAudioStop(s)
        \/ WriteDone(s)
        \/ WriteFails(s)
        \/ EndOfStream(s)
        \/ CacheStep(s)

SpecFair == Init /\ [][NextFair]_vars /\ Fairness

\* ================================================================ claims
Built == 1 .. Len(detectors)

\* a step in which get_porcupine returns a detector to session s
AcquireReturns(s) ==
    /\ session'[s].detector # None
    /\ session'[s].detector # session[s].detector

\* the binding _load_keyword maintains
Binding(self) ==
    << self.detector, self.keyword_name, self.chunk_format, self.bytes_per_chunk >>

\* session `self` is suspended in the write of a Detection: the frame it has
\* just processed is still at the front of its buffer
WritingDetection(self) ==
    self.pc = "write" /\ self.event.type = "audio-chunk"

\* a step of the handling of an AudioChunk by session s that takes in the
\* chunk's audio, or goes on after the write of a Detection
ChunkStep(s) ==
    \/ Len(session'[s].stream) > Len(session[s].stream)
    \/ WritingDetection(session[s]) /\ session'[s].stopped = ""
          /\ session'[s] # session[s]

\* the step that ends the handling of an AudioChunk by session s
ChunkCompletes(s) == ChunkStep(s) /\ session'[s].pc = "read"

\* all but the last element of a sequence
Front(seq) == SubSeq(seq, 1, Len(seq) - 1)

\* ---- C1
\* C1: between two returns of the same Detector by get_porcupine there is a
\* release of it: no Detector has two returns outstanding.
C1_CacheCorrectness ==
    \A d \in Built : returned[d] - released[d] <= 1

\* two concurrent sessions asked for the same keyword with the same
\* sensitivity and hold different instances
C1_Witness ==
    \E s, t \in Sessions :
        /\ s # t
        /\ session[s].detector # None
        /\ session[t].detector # None
        /\ session[s].keyword_name = session[t].keyword_name
        /\ session[s].cli_sensitivity = session[t].cli_sensitivity
        /\ session[s].detector # session[t].detector

\* ---- C2
\* the places a detector is held: sessions bound to it, slots of the idle lists
Holders(d) == {s \in Sessions : session[s].detector = d}
IdleSlots(d) ==
    {p \in UNION {{<< n, i >> : i \in 1 .. Len(detector_cache[n])} :
                    n \in DOMAIN detector_cache} :
        detector_cache[p[1]][p[2]] = d}

\* C2: every Detector that has been built is owned by exactly one of a
\* session and the idle set.
C2_OwnedByExactlyOne ==
    \A d \in Built : Cardinality(Holders(d)) + Cardinality(IdleSlots(d)) = 1

\* ---- C3
EventsSince(self) == SubSeq(self.written, self.utterance_from + 1, Len(self.written))

\* C3: when AudioStop ends an utterance begun by AudioStart, exactly one
\* NotDetected has been written since the AudioStart if and only if no
\* Detection has.
C3_UtteranceCompletion ==
    \A s \in Sessions :
        LET self == session[s]
            since == EventsSince(self)
        IN  (self.stopped = "false" /\ self.utterance_from >= 0) =>
              ( (Cardinality({i \in 1 .. Len(since) :
                                since[i].type = "not-detected"}) = 1)
                <=> (\A i \in 1 .. Len(since) : since[i].type # "detection") )

\* ---- C4
\* C4: the release in disconnect appends the bound Detector to the idle list
\* of the session's keyword and clears the binding, leaving it where a later
\* get_porcupine for that keyword and sensitivity finds it; no get_porcupine
\* returns a Detector a session is bound to; a disconnect without a bound
\* detector leaves the idle set as it is.
C4_ResourceReturn ==
    [][\A s \in Sessions :
         LET self == session[s]
             d == self.detector
             k == self.keyword_name
         IN  /\ (self.pc = "disc_cs" /\ session'[s].pc = "closed") =>
                   /\ DOMAIN detector_cache' = DOMAIN detector_cache \cup {k}
                   /\ detector_cache'[k] =
                        (IF k \in DOMAIN detector_cache
                         THEN detector_cache[k] ELSE << >>) \o << d >>
                   /\ \A n \in DOMAIN detector_cache \ {k} :
                        detector_cache'[n] = detector_cache[n]
                   /\ session'[s].detector = None
                   /\ detectors[d].porcupine.keyword = k
                   /\ detectors[d].sensitivity = self.cli_sensitivity
             /\ (self.pc = "disc" /\ session'[s].pc = "closed") =>
                   detector_cache' = detector_cache
             /\ AcquireReturns(s) =>
                   \A t \in Sessions : session[t].detector # session'[s].detector
      ]_vars

\* a session is bound to a Detector that an earlier session gave back
C4_Witness ==
    \E s \in Sessions :
        /\ session[s].detector # None
        /\ released[session[s].detector] >= 1

\* ---- C5
Mismatching(list, sensitivity) ==
    \A i \in 1 .. Len(list) : detectors[list[i]].sensitivity # sensitivity

\* C5: get_porcupine returns only Detectors built with the requested
\* sensitivity; with nothing but other sensitivities idle for the keyword it
\* misses, the miss leaves the idle set alone and the build makes a new
\* Detector with the requested sensitivity.
C5_SensitivityExact ==
    [][\A s \in Sessions :
         LET self == session[s]
             list == CacheGet(detector_cache, RequestedKeyword(self.event))
         IN  /\ AcquireReturns(s) =>
                   detectors'[session'[s].detector].sensitivity = self.cli_sensitivity
             /\ (self.pc = "get_cs" /\ session'[s] # self
                   /\ Mismatching(list, self.cli_sensitivity)) =>
                   /\ session'[s].pc = "get_build"
                   /\ detector_cache' = detector_cache
             /\ (self.pc = "get_build" /\ AcquireReturns(s)) =>
                   /\ session'[s].detector = Len(detectors) + 1
                   /\ detector_cache' = detector_cache
      ]_vars

\* a session has missed on an idle list that holds only other sensitivities
C5_Witness ==
    \E s \in Sessions :
        LET list == CacheGet(detector_cache, RequestedKeyword(session[s].event))
        IN  /\ session[s].pc = "get_build"
            /\ list # << >>
            /\ Mismatching(list, session[s].cli_sensitivity)

\* ---- C6
\* the frames of a byte stream cut every n bytes from its start, as samples
FramesOf(stream, n) ==
    [k \in 1 .. (Len(stream) \div n) |->
        [j \in 1 .. (n \div 2) |->
            Int16(stream[(k - 1) * n + 2 * j - 1], stream[(k - 1) * n + 2 * j])]]

\* C6: for a session that received all its audio bound to one detector, the
\* process calls are the leading frames of the whole audio, in order, and the
\* buffer is the audio after the frames sliced off; between events, all the
\* whole frames of the audio have been processed and sliced off: a function
\* of the bytes, not of how chunks split them.  While a Detection is being
\* written, and after that write has failed, the frame processed last is
\* still in the buffer.
C6_SplitIndependent ==
    \A s \in Sessions :
        LET self == session[s]
            n == self.bytes_per_chunk
            calls == Len(self.processed)
            unsliced == WritingDetection(self)
                          \/ (self.stopped = "write_failed" /\ calls > 0
                                /\ Len(self.audio_buffer) >= n)
            sliced == IF unsliced THEN calls - 1 ELSE calls
        IN  (self.detector # None /\ self.bound_at = 0) =>
              /\ calls <= Len(self.stream) \div n
              /\ self.processed =
                   [k \in 1 .. calls |->
                      [detector |-> self.detector,
                       frame |-> FramesOf(self.stream, n)[k]]]
              /\ self.audio_buffer =
                   SubSeq(self.stream, sliced * n + 1, Len(self.stream))
              /\ (self.pc = "read" \/ self.stopped \in {"false", "eof"}) =>
                   /\ calls = Len(self.stream) \div n
                   /\ ~ unsliced

\* two frames were processed and the second was completed by a chunk that
\* began at its last byte (the Detection carries that chunk's timestamp)
C6_Witness ==
    \E s \in Sessions :
        /\ session[s].pc = "read"
        /\ session[s].detector # None
        /\ session[s].bound_at = 0
        /\ session[s].bytes_per_chunk = 2
        /\ Len(session[s].processed) = 2
        /\ \E i \in 1 .. Len(session[s].written) :
              /\ session[s].written[i].type = "detection"
              /\ session[s].written[i].timestamp = 400

\* ---- C7
\* C7: when a Detect binds a new detector to a session that holds one, the
\* one it held is in the idle set of its keyword afterwards.
C7_RebindReleases ==
    [][\A s \in Sessions :
         (session[s].detector # None /\ AcquireReturns(s)) =>
            /\ session[s].keyword_name \in DOMAIN detector_cache'
            /\ \E i \in 1 .. Len(detector_cache'[session[s].keyword_name]) :
                  detector_cache'[session[s].keyword_name][i] = session[s].detector
      ]_vars

\* ---- C8
\* a step of session s inside get_porcupine that does not return a detector
FailingAcquireStep(s) ==
    \/ session'[s].stopped = "raised" /\ session[s].stopped # "raised"
    \/ session'[s].pc \in {"get_lock", "get_cs", "get_build"} /\ session'[s] # session[s]

\* C8: no step of an acquire that fails changes the idle-set mapping, the
\* keyword mapping, the built detectors, the failing session's binding or
\* another session.
C8_FailedAcquireFrame ==
    [][\A s \in Sessions :
         FailingAcquireStep(s) =>
            /\ detector_cache' = detector_cache
            /\ keywords' = keywords
            /\ detectors' = detectors
            /\ Binding(session'[s]) = Binding(session[s])
            /\ \A t \in Sessions \ {s} : session'[t] = session[t]
      ]_vars

\* an acquire has failed for a session that holds a detector
C8_Witness ==
    \E s \in Sessions :
        /\ session[s].stopped = "raised"
        /\ session[s].detector # None

\* ---- C9
\* the timestamp of the AudioChunk session `self` handles next
ChunkTimestamp(self) ==
    IF self.event.type = "audio-chunk" THEN self.event.timestamp
    ELSE TimestampAt(self)

Matching(calls) == SelectSeq(calls, LAMBDA c : process(c.frame) >= 0)

\* C9: every step of the handling of an AudioChunk hands to write_event, for
\* each frame it processes with a result >= 0 and in order, one Detection with
\* the active keyword name and the chunk's timestamp, and nothing else; the
\* handling is suspended in that write before it looks at the next frame.
C9_DetectionPerMatch ==
    [][\A s \in Sessions :
         (ChunkStep(s) \/ Len(session'[s].processed) > Len(session[s].processed)) =>
            LET calls == SubSeq(session'[s].processed,
                                Len(session[s].processed) + 1,
                                Len(session'[s].processed))
                hits == Matching(calls)
            IN  /\ session'[s].written =
                     session[s].written \o
                       [i \in 1 .. Len(hits) |->
                          [type |-> "detection",
                           name |-> session'[s].keyword_name,
                           timestamp |-> ChunkTimestamp(session[s]),
                           models |-> << >>]]
                /\ Len(hits) <= 1
                /\ (Len(hits) = 1) <=> WritingDetection(session'[s])
                /\ Len(hits) = 1 => process(calls[Len(calls)].frame) >= 0
      ]_vars

\* two frames of one chunk matched and each wrote its Detection, after a
\* frame that did not match
C9_Witness ==
    \E s \in Sessions :
        LET w == session[s].written
        IN  /\ \E i, j \in 1 .. Len(w) :
                  /\ i < j
                  /\ w[i].type = "detection"
                  /\ w[j].type = "detection"
                  /\ w[i].timestamp = w[j].timestamp
            /\ \E i \in 1 .. Len(session[s].processed) :
                  process(session[s].processed[i].frame) < 0

\* ---- C10
\* C10: Describe hands exactly the static Info event to write_event, which
\* lists one model per discovered keyword with the description
\* "<name> (<language>)"; when the write is over it returns True; neither
\* step changes anything else of the session or of the cache.
C10_DescribeFrame ==
    [][\A s \in Sessions :
         /\ HandleDescribe(s) =>
               LET w == session'[s].written
                   info == w[Len(w)]
               IN  /\ Len(w) = Len(session[s].written) + 1
                   /\ SubSeq(w, 1, Len(w) - 1) = session[s].written
                   /\ info.type = "info"
                   /\ Len(info.models) = Len(keywords)
                   /\ \A i \in 1 .. Len(keywords) :
                         /\ info.models[i].name = keywords[i].name
                         /\ info.models[i].description =
                              keywords[i].name \o " (" \o keywords[i].language \o ")"
                         /\ info.models[i].name = "ok home" =>
                              info.models[i].description = "ok home (en)"
                   /\ session'[s] = [session[s] EXCEPT !.written = w,
                                                       !.pc = "write",
                                                       !.event = Describe]
                   /\ detector_cache' = detector_cache
                   /\ detectors' = detectors
                   /\ detector_lock' = detector_lock
         /\ (session[s].pc = "write" /\ session[s].event.type = "describe"
               /\ WriteDone(s)) =>
               /\ session'[s] = [session[s] EXCEPT !.pc = "read",
                                                   !.event = NoEvent]
               /\ detector_cache' = detector_cache
               /\ detectors' = detectors
               /\ detector_lock' = detector_lock
      ]_vars

\* a session with a bound detector and buffered audio has answered a Describe
C10_Witness ==
    \E s \in Sessions :
        /\ session[s].detector # None
        /\ session[s].audio_buffer # << >>
        /\ session[s].pc = "read"
        /\ Len(session[s].written) >= 2
        /\ session[s].written[Len(session[s].written)].type = "info"

\* ---- C11
\* C11: handling AudioStop ends in the caller's loop stopping on False,
\* whether or not the session has a detector, once the NotDetected it hands
\* to write_event is written; every other handling that completes without
\* an error leaves the session reading the next event; a session that has
\* stopped never reads again.
C11_AudioStopEnds ==
    [][\A s \in Sessions :
         /\ HandleAudioStop(s) =>
               /\ session'[s].event.type = "audio-stop"
                     \/ session'[s].stopped = "false"
               /\ session'[s].pc = "write" \/ session'[s].stopped = "false"
         /\ (session[s].pc = "write" /\ session[s].event.type = "audio-stop"
               /\ WriteDone(s)) =>
               /\ session'[s].stopped = "false"
               /\ session'[s].pc \in {"disc", "disc_cs"}
         /\ (HandleAudioStart(s) \/ HandleOther(s) \/ HandleDetect(s, << >>)) =>
               /\ session'[s].pc = "read"
               /\ session'[s].stopped = ""
         /\ (session[s].pc = "write" /\ session[s].event.type = "describe"
               /\ WriteDone(s)) =>
               /\ session'[s].pc = "read"
               /\ session'[s].stopped = ""
         /\ (session[s].event.type = "detect"
               /\ session[s].pc \in {"get_cs", "get_build"}
               /\ AcquireReturns(s)) =>
               /\ session'[s].pc = "read"
               /\ session'[s].stopped = ""
         /\ ChunkStep(s) =>
               /\ session'[s].stopped = ""
               /\ session'[s].pc = "read" \/ WritingDetection(session'[s])
         /\ (session'[s].stopped = "false" /\ session[s].stopped # "false") =>
               \/ HandleAudioStop(s)
               \/ session[s].event.type = "audio-stop" /\ WriteDone(s)
         /\ session[s].stopped # "" => session'[s].pc # "read"
      ]_vars

\* a session that answered a Describe and bound a detector was ended by an
\* AudioStop
C11_Witness ==
    \E s \in Sessions :
        /\ session[s].stopped = "false"
        /\ session[s].detector # None
        /\ \E i \in 1 .. Len(session[s].written) :
              session[s].written[i].type = "info"

\* ---- C12
\* session s takes a step of its own
Steps(s) == session'[s] # session[s]

\* C12: the steps that read the idle-set mapping (the lookup of
\* get_porcupine) or change it (the remove of a hit, the append of a
\* disconnect) are taken by the session that holds the lock, and only one
\* session is in such a block at a time; the session that runs
\* pvporcupine.create does not hold the lock, neither before nor after.
C12_LockScope ==
    [][\A s \in Sessions :
         /\ (Steps(s) /\ session[s].pc \in {"get_cs", "disc_cs"}) =>
               /\ detector_lock = s
               /\ detector_lock' = None
               /\ \A t \in Sessions \ {s} :
                     session[t].pc \notin {"get_cs", "disc_cs"}
         /\ (Steps(s) /\ session[s].pc \notin {"get_cs", "disc_cs"}) =>
               detector_cache' = detector_cache
         /\ (Steps(s) /\ session[s].pc = "get_build") =>
               /\ detector_lock # s
               /\ detector_lock' # s \/ session'[s].pc = "disc_cs"
      ]_vars

\* one session is at pvporcupine.create while another is inside the lock
C12_Witness ==
    \E s, t \in Sessions :
        /\ session[s].pc = "get_build"
        /\ session[t].pc = "get_cs"
        /\ detector_lock = t

\* ---- C13
\* C13: a step that takes in the audio of an AudioChunk leaves a detector
\* bound; when none was bound as the chunk arrived, the one bound is a
\* detector for the default keyword and "porcupine" is the active name; when
\* one was bound as the chunk arrived, the binding is as it was.  Every
\* process call was made on a detector.
C13_DefaultBinding ==
    [][\A s \in Sessions :
         LET self == session[s]
             after == session'[s]
         IN  /\ Len(after.stream) > Len(self.stream) =>
                   /\ after.detector # None
                   /\ self.detector = None =>
                         /\ self.event.type = "audio-chunk"
                         /\ after.keyword_name = "porcupine"
                         /\ detectors'[after.detector].porcupine.keyword = "porcupine"
                   /\ self.detector # None => Binding(after) = Binding(self)
             /\ \A i \in 1 .. Len(after.processed) :
                   after.processed[i].detector # None
      ]_vars

\* a session with no Detect before its audio has processed a frame on the
\* default keyword's detector
C13_Witness ==
    \E s \in Sessions :
        /\ session[s].keyword_name = DEFAULT_KEYWORD
        /\ session[s].detector # None
        /\ session[s].bound_at = 0
        /\ Len(session[s].processed) >= 1
        /\ events_left = MaxAudioEvents - 1

\* ---- C14
\* C14: when a Detect binds a detector to a session, the session's audio
\* buffer is empty afterwards.
C14_RebindResetsBuffer ==
    [][\A s \in Sessions :
         (session[s].event.type = "detect" /\ AcquireReturns(s)) =>
            session'[s].audio_buffer = << >>
      ]_vars

\* ---- C15
\* the two bytes a signed 16-bit sample was unpacked from
BytesOf(sample) ==
    LET u == IF sample < 0 THEN sample + 65536 ELSE sample
    IN  << u % 256, u \div 256 >>

RECURSIVE FrameBytes(_)
FrameBytes(frame) ==
    IF frame = << >> THEN << >> ELSE BytesOf(Head(frame)) \o FrameBytes(Tail(frame))

RECURSIVE Consumed(_)
\* the bytes of all process calls, in call order
Consumed(calls) ==
    IF calls = << >> THEN << >>
    ELSE FrameBytes(Head(calls).frame) \o Consumed(Tail(calls))

\* C15: when an AudioChunk has been handled the buffer is shorter than one
\* frame of the bound detector; every process call got frame_length samples
\* of the detector it was made on; and the bytes given to process, in call
\* order, followed by the buffer are exactly the bytes received, in arrival
\* order: whole frames from the front, each byte once, the rest kept.  While
\* a Detection is being written the frame processed last is still at the
\* front of the buffer; if that write fails it stays there, and the session
\* makes no further process call.
C15_WholeFrames ==
    [][\A s \in Sessions :
         LET self == session[s]
             after == session'[s]
             sliced == Consumed(after.processed) \o after.audio_buffer = after.stream
             unsliced == /\ after.processed # << >>
                         /\ Consumed(Front(after.processed)) \o after.audio_buffer
                              = after.stream
         IN  /\ ChunkCompletes(s) =>
                   /\ Len(after.audio_buffer) < after.bytes_per_chunk
                   /\ after.bytes_per_chunk =
                        2 * detectors'[after.detector].porcupine.frame_length
             /\ \A i \in 1 .. Len(after.processed) :
                   Len(after.processed[i].frame) =
                     detectors'[after.processed[i].detector].porcupine.frame_length
             /\ IF WritingDetection(after) THEN unsliced
                ELSE IF after.stopped = "write_failed" THEN sliced \/ unsliced
                ELSE sliced
             /\ (self.stopped # "" /\ after.pc # "closed") =>
                   after.processed = self.processed
      ]_vars

\* one AudioChunk completed two frames and left a byte over, which the next
\* chunk completed to a third frame
C15_Witness ==
    \E s \in Sessions :
        /\ session[s].pc = "read"
        /\ Len(session[s].processed) = 3
        /\ Len(session[s].stream) = 6
        /\ session[s].bytes_per_chunk = 2
        /\ events_left = MaxAudioEvents - 3

\* ---- C16
\* the total number of idle detectors
IdleCount(cache) ==
    Cardinality(UNION {{<< n, i >> : i \in 1 .. Len(cache[n])} : n \in DOMAIN cache})

\* C16: a step of get_porcupine that returns an idle Detector removes exactly
\* that Detector from the list of its keyword, the others staying in their
\* order; every other step of get_porcupine (the miss, the build) leaves the
\* idle set as it is; the idle set grows only in the release of a disconnect.
C16_AcquireNeverAdds ==
    [][\A s \in Sessions :
         LET self == session[s]
             k == RequestedKeyword(self.event)
             d == session'[s].detector
         IN  /\ (self.pc = "get_cs" /\ AcquireReturns(s)) =>
                   /\ k \in DOMAIN detector_cache
                   /\ \E i \in 1 .. Len(detector_cache[k]) : detector_cache[k][i] = d
                   /\ detector_cache' =
                        [detector_cache EXCEPT
                           ![k] = SelectSeq(@, LAMBDA x : x # d)]
                   /\ IdleCount(detector_cache') = IdleCount(detector_cache) - 1
             /\ (Steps(s) /\ self.pc \in {"get_lock", "get_cs", "get_build"}
                   /\ ~ (self.pc = "get_cs" /\ AcquireReturns(s))) =>
                   detector_cache' = detector_cache
             /\ (Steps(s) /\ IdleCount(detector_cache') > IdleCount(detector_cache)) =>
                   /\ self.pc = "disc_cs"
                   /\ session'[s].pc = "closed"
      ]_vars

\* a hit took one of two idle detectors of different sensitivities and left
\* the other
C16_Witness ==
    \E s \in Sessions :
        /\ session[s].detector # None
        /\ released[session[s].detector] >= 1
        /\ "ok home" \in DOMAIN detector_cache
        /\ Len(detector_cache["ok home"]) = 1
        /\ detectors[detector_cache["ok home"][1]].sensitivity
             # session[s].cli_sensitivity
        /\ released[detector_cache["ok home"][1]] = 1
        /\ returned[detector_cache["ok home"][1]] = 1

\* ---- C17
\* C17: the step that ends the handling of a Detect with names binds a
\* detector built for names[0] under the active name names[0], builds at most
\* that one detector, and returns to reading: no other name is acquired.
C17_FirstNameOnly ==
    [][\A s \in Sessions :
         LET self == session[s]
             after == session'[s]
         IN  (self.event.type = "detect" /\ AcquireReturns(s)) =>
                /\ after.keyword_name = self.event.names[1]
                /\ detectors'[after.detector].porcupine.keyword = self.event.names[1]
                /\ after.bytes_per_chunk =
                     2 * FrameLengthOf(self.event.names[1])
                /\ Len(detectors') <= Len(detectors) + 1
                /\ after.pc = "read"
                /\ after.event = NoEvent
      ]_vars

\* a Detect naming "ok home" and then "porcupine" has bound "ok home", the
\* only detector built
C17_Witness ==
    \E s \in Sessions :
        /\ session[s].pc = "read"
        /\ session[s].keyword_name = "ok home"
        /\ session[s].detector = 1
        /\ detectors = << Detector([name |-> "ok home", language |-> "en"], 5) >>
        /\ events_left = MaxAudioEvents - 1

\* ---- C18
\* C18: handling AudioStart leaves detected false, writes nothing, makes no
\* process call, keeps the buffer (a partial frame included), the bound
\* detector, the active keyword name and the frame size, leaves the cache, the
\* built detectors and the lock as they are, and returns to reading.
C18_AudioStartFrame ==
    [][\A s \in Sessions :
         HandleAudioStart(s) =>
            /\ session'[s].detected = FALSE
            /\ session'[s].audio_buffer = session[s].audio_buffer
            /\ Binding(session'[s]) = Binding(session[s])
            /\ session'[s].written = session[s].written
            /\ session'[s].processed = session[s].processed
            /\ session'[s].stream = session[s].stream
            /\ session'[s].pc = "read"
            /\ detector_cache' = detector_cache
            /\ detectors' = detectors
            /\ detector_lock' = detector_lock
            /\ keywords' = keywords
      ]_vars

\* an AudioStart came after a Detection, while a partial frame was buffered
C18_Witness ==
    \E s \in Sessions :
        /\ session[s].utterance_from = 1
        /\ Len(session[s].written) = 1
        /\ session[s].written[1].type = "detection"
        /\ session[s].written[1].timestamp = 200
        /\ Len(session[s].audio_buffer) = 1
        /\ Len(session[s].stream) = 3
        /\ events_left = MaxAudioEvents - 3

\* ---- C19
\* the keyword the event read in this step asks get_porcupine for is unknown
\* (the step goes from the read straight to the error)
UnknownKeywordStep(s) ==
    /\ session[s].pc = "read"
    /\ events_left' < events_left
    /\ session'[s].stopped = "raised"

\* C19: a Detect or AudioChunk whose keyword is not discovered ends the
\* handling with an error in the step that reads it: the session never
\* enters get_porcupine's lock or its build, nothing is built, the cache is
\* as it was, no process call is made and nothing is written; a session that
\* has raised writes nothing and processes nothing until it is closed.  Any
\* event whose keyword is unknown ends this way.
C19_UnknownKeywordFatal ==
    [][\A s \in Sessions :
         LET self == session[s]
             after == session'[s]
         IN  /\ UnknownKeywordStep(s) =>
                   /\ after.pc \in {"disc", "disc_cs"}
                   /\ detectors' = detectors
                   /\ detector_cache' = detector_cache
                   /\ after.written = self.written
                   /\ after.processed = self.processed
                   /\ Binding(after) = Binding(self)
                   /\ after.stream = self.stream
                   /\ after.audio_buffer = self.audio_buffer
             /\ (self.stopped = "raised" /\ Steps(s)) =>
                   \/ after.pc = "closed"
                   \/ /\ after.written = self.written
                      /\ after.processed = self.processed
                      /\ after.pc \in {"disc", "disc_cs"}
             /\ (self.pc = "read" /\ events_left' < events_left /\ Steps(s)
                   /\ after.pc \in {"get_lock", "get_cs"}) =>
                   KeywordKnown(keywords, RequestedKeyword(after.event))
             /\ (\E n \in {"unknown", "porcupine"} :
                    ~ KeywordKnown(keywords, n) /\ HandleDetect(s, << n >>)) =>
                   UnknownKeywordStep(s)
             /\ (self.pc = "read" /\ self.detector = None
                   /\ ~ KeywordKnown(keywords, DEFAULT_KEYWORD)
                   /\ Steps(s) /\ events_left' < events_left
                   /\ after.stopped = "") =>
                   Len(after.stream) = Len(self.stream)
      ]_vars

\* with no "porcupine" model discovered, the first event after an AudioStart
\* raised before anything was bound or built
C19_Witness ==
    \E s \in Sessions :
        /\ ~ KeywordKnown(keywords, DEFAULT_KEYWORD)
        /\ session[s].stopped = "raised"
        /\ session[s].pc = "disc"
        /\ session[s].detector = None
        /\ session[s].utterance_from = 0
        /\ detectors = << >>
        /\ events_left = MaxAudioEvents - 2

\* ---- C20
\* C20: every idle Detector is listed under the keyword it was built for;
\* every session with a bound Detector has that Detector's keyword as its
\* active name, 2 x its frame_length as its frame size and frame_length "h"s
\* as its chunk format.
C20_KeywordConsistency ==
    /\ \A k \in DOMAIN detector_cache :
          \A i \in 1 .. Len(detector_cache[k]) :
             detectors[detector_cache[k][i]].porcupine.keyword = k
    /\ \A s \in Sessions :
          LET self == session[s]
          IN  self.detector # None =>
                /\ self.keyword_name = detectors[self.detector].porcupine.keyword
                /\ self.bytes_per_chunk =
                     2 * detectors[self.detector].porcupine.frame_length
                /\ Len(self.chunk_format) =
                     detectors[self.detector].porcupine.frame_length

\* a session moved from the default keyword to "ok home", then failed to move
\* to an unknown keyword; its first detector was never given back
C20_Witness ==
    \E s \in Sessions :
        /\ session[s].stopped = "raised"
        /\ session[s].detector = 2
        /\ session[s].keyword_name = "ok home"
        /\ detectors[1].porcupine.keyword = "porcupine"
        /\ released = << 0, 0 >>

\* ---- C21
\* the positions where a handler is suspended (awaiting an event, a write,
\* the lock, or not running at all)
Suspended(self) ==
    self.pc \in {"new", "read", "write", "get_lock", "disc", "closed"}

\* C21: the lock is held only by a session inside one of the two blocks, never
\* by a suspended session nor by one at pvporcupine.create; and under the
\* event loop's scheduling every session that has entered get_porcupine
\* leaves it, every session that has gone on to disconnect is closed, and a
\* lock that is held is released.
C21_LockLiveness ==
    /\ [](\A s \in Sessions :
            /\ detector_lock = s => session[s].pc \in {"get_cs", "disc_cs"}
            /\ session[s].pc \in {"get_cs", "disc_cs"} => detector_lock = s
            /\ detector_lock = s => ~ Suspended(session[s]))
    /\ \A s \in Sessions :
          /\ (session[s].pc \in {"get_lock", "get_cs", "get_build"})
                ~> (session[s].pc \in {"read", "closed"})
          /\ (session[s].pc \in {"disc", "disc_cs"}) ~> (session[s].pc = "closed")
          /\ (detector_lock = s) ~> (detector_lock # s)

\* a session waits for the lock in disconnect while another holds it in
\* get_porcupine
C21_Witness ==
    \E s, t \in Sessions :
        /\ session[s].pc = "disc"
        /\ session[s].detector # None
        /\ session[t].pc = "get_cs"
        /\ detector_lock = t

\* ---- C22
\* C22: in a step that completes a disconnect, the cache and the binding
\* after it are those of disconnect run once, and running disconnect again
\* on that handler and cache changes neither; a disconnect of a session with
\* nothing bound changes neither to begin with; and no Detector is twice in
\* the idle set.
C22_DisconnectIdempotent ==
    [][\A s \in Sessions :
         LET self == session[s]
             once == DisconnectBody(self, detector_cache)
             twice == DisconnectBody(once.self, once.cache)
         IN  /\ (self.pc \in {"disc", "disc_cs"} /\ session'[s].pc = "closed") =>
                   /\ detector_cache' = once.cache
                   /\ session'[s].detector = once.self.detector
                   /\ twice = once
                   /\ self.detector = None => once = [self |-> self,
                                                      cache |-> detector_cache]
                   /\ DisconnectBody(session'[s], detector_cache') =
                        [self |-> session'[s], cache |-> detector_cache']
             /\ \A d \in 1 .. Len(detectors') :
                   Cardinality({p \in UNION {{<< n, i >> :
                                                i \in 1 .. Len(detector_cache'[n])} :
                                              n \in DOMAIN detector_cache'} :
                                  detector_cache'[p[1]][p[2]] = d}) <= 1
      ]_vars

\* a Detector that has been released twice over its life is once in the idle
\* set, beside another idle Detector
C22_Witness ==
    \E d \in Built :
        /\ released[d] = 2
        /\ Cardinality(IdleSlots(d)) = 1
        /\ IdleCount(detector_cache) = 2

\* ---- C23
\* C23: every step of the handling of an AudioChunk ends with a detector
\* bound and a frame size of at least 2 bytes, and makes its process calls on
\* the bound detector; it ends either with the handling over, or suspended in
\* the write of a Detection with fewer whole frames left in the buffer than
\* before.  When the handling is over the process calls made for the chunk
\* number floor((bytes buffered before + bytes appended) / frame size) and
\* the buffer is that many frames shorter than the bytes it was given; while
\* it is suspended every call but the last has taken its frame off the buffer.
C23_FrameLoopTerminates ==
    [][\A s \in Sessions :
         LET self == session[s]
             after == session'[s]
             appended == Len(after.stream) - Len(self.stream)
             total == IF appended > 0 THEN Len(self.audio_buffer) + appended
                      ELSE self.chunk_bytes
             first == IF appended > 0 THEN Len(self.processed)
                      ELSE self.chunk_calls
             calls == Len(after.processed) - first
             size == after.bytes_per_chunk
         IN  ChunkStep(s) =>
                /\ after.detector # None
                /\ size >= 2
                /\ \A i \in Len(self.processed) + 1 .. Len(after.processed) :
                      after.processed[i].detector = after.detector
                /\ after.pc = "read" \/ WritingDetection(after)
                /\ after.pc = "read" =>
                      /\ calls = total \div size
                      /\ Len(after.audio_buffer) = total - calls * size
                /\ WritingDetection(after) =>
                      /\ calls >= 1
                      /\ calls <= total \div size
                      /\ Len(after.audio_buffer) = total - (calls - 1) * size
                      /\ after.chunk_bytes = total
                      /\ after.chunk_calls = first
                      /\ WritingDetection(self) =>
                            Len(after.audio_buffer) < Len(self.audio_buffer)
      ]_vars

\* a chunk of 4 bytes came on top of 1 buffered byte: two calls, 1 byte left
C23_Witness ==
    \E s \in Sessions :
        /\ session[s].pc = "read"
        /\ session[s].bytes_per_chunk = 2
        /\ Len(session[s].stream) = 5
        /\ Len(session[s].processed) = 2
        /\ Len(session[s].audio_buffer) = 1
        /\ events_left = MaxAudioEvents - 2

====
